---- MODULE Spec2Model ----
(***************************************************************************)
(* CIC decimator generator: the bit-width calculation of Builder._cook     *)
(* (src/src/cicdecimator/Builder.py), the cook-on-demand life cycle of a   *)
(* Builder object, and the command-line entry point (cmdline.py).          *)
(*                                                                         *)
(* Arrays keep the source's 0-based indices: stage_widths, F_j and B_j are *)
(* functions over 0..2N.  An attribute that does not exist yet, or that is *)
(* None, is the empty sequence <<>>; a present integer v is <<v>>.         *)
(*                                                                         *)
(* Gain norms are kept squared (F_j^2 is an integer), so that              *)
(*   floor(-log2(F_j) + log2(sqrt(4^bt/12)) + log2(6/N)/2)                 *)
(*     = floor(bt - log4(2*N*F_j^2)) = bt - ceil(log4(2*N*F_j^2)).         *)
(* When 2*N*F_j^2 is an exact power of 4 the real value is an integer and  *)
(* the double-precision sum may land just below it, so np.floor gives      *)
(* either that integer or one less; Cook takes the set of stages where it  *)
(* landed below as a parameter.  Away from such a boundary the distance to *)
(* the next integer exceeds the rounding error by many orders of magnitude *)
(* for the ratios and stage counts used here.                              *)
(***************************************************************************)
EXTENDS Integers, Sequences, FiniteSets, TLC

\* ------------------------------------------------------------- bounds
MaxRatio == 3
MaxIn == 3
MaxOW == 4
MaxInBits == 2
LifeMaxRatio == 3
LifeMaxStages == 2
LifeMaxIn == 1
LifeMaxOW == 2

\* ------------------------------------------------- program constants
\* canned_F holds the norms of 0..7 comb stages.
MaxCombStages == 7

canned_F2 == <<1, 2, 6, 20, 70, 252, 924, 3424>>

\* ------------------------------------------------------------ helpers
Abs(x) == IF x < 0 THEN -x ELSE x

RECURSIVE Pow(_, _)
Pow(b, e) == IF e <= 0 THEN 1 ELSE b * Pow(b, e - 1)

\* int.bit_length(): the number of bits of |x|, 0 for 0.
RECURSIVE BitLengthNat(_)
BitLengthNat(a) == IF a = 0 THEN 0 ELSE 1 + BitLengthNat(a \div 2)

bit_length(x) == BitLengthNat(Abs(x))

\* The closure Builder._cook defines as bits(x, y), selected by dtype.
bits(dtype, x, y) ==
    IF dtype = "unsigned"
    THEN bit_length(y)
    ELSE LET bx == bit_length(x) + (IF x < 0 THEN 0 ELSE 1)
             by == bit_length(y) + (IF y < 0 THEN 0 ELSE 1)
         IN  IF bx > by THEN bx ELSE by

\* growth written with * where the source has **.
growth_product(ratio, stages) == ratio * stages

\* growth = self.ratio ** self.stages
Growth(ratio, stages) == Pow(ratio, stages)

\* scipy.special.binom on the integer arguments the loop passes: n >= k,
\* computed over the smaller of k and n-k.
RECURSIVE BinomUp(_, _)
BinomUp(n, m) == IF m = 0 THEN 1 ELSE (BinomUp(n, m - 1) * (n - m + 1)) \div m

binom(n, k) ==
    IF k < 0 \/ k > n THEN 0
    ELSE IF k <= n - k THEN BinomUp(n, k) ELSE BinomUp(n, n - k)

\* h_j[k] = sum over L = 0..floor(k/(R*M)) of
\*          (-1)^L * binom(N, L) * binom(N-j+k-R*M*L, k-R*M*L),  M = 1.
RECURSIVE points_sum(_, _, _, _, _)
points_sum(N, R, j, k, L) ==
    IF L < 0 THEN 0
    ELSE (IF L % 2 = 0 THEN 1 ELSE -1)
            * binom(N, L) * binom(N - j + k - R * L, k - R * L)
         + points_sum(N, R, j, k, L - 1)

h_j(N, R, j, k) == points_sum(N, R, j, k, k \div R)

\* np.sum(h_j ** 2) over k = 0..len(h_j)-1, len(h_j) = (R*M-1)*N + j.
RECURSIVE sum_sq(_, _, _, _)
sum_sq(N, R, j, k) ==
    IF k < 0 THEN 0
    ELSE h_j(N, R, j, k) * h_j(N, R, j, k) + sum_sq(N, R, j, k - 1)

integrator_F2(N, R, j) == sum_sq(N, R, j, (R - 1) * N + j - 1)

\* F_j ** 2 with the comb norms assigned without np.flip.
F_j2_unflipped(N, R, p) ==
    IF p <= N - 2 THEN integrator_F2(N, R, p + 1)
    ELSE IF p = N - 1 THEN canned_F2[N] * R
    ELSE canned_F2[p - N + 1]

\* F_j ** 2 at array position p, after the three assignments of the source:
\*   F_j[j-1] for j = N-1 .. 1, F_j[N:] = flip(canned_F[0:N+1]) and
\*   F_j[N-1] = F_j[N+1] * sqrt(R*M).
F_j2(N, R, p) ==
    IF p <= N - 2 THEN integrator_F2(N, R, p + 1)
    ELSE IF p = N - 1 THEN canned_F2[N] * R
    ELSE canned_F2[2 * N - p + 1]

\* F_j[N:] = np.flip(canned_F[0:N+1]) raises ValueError when the slice of
\* the 8-entry table is shorter than the N+1 places it is assigned to.
TableExhausted(N) == N + 1 > Len(canned_F2)

\* ceil(log4(x)) for x >= 1.
RECURSIVE CeilLog4From(_, _)
CeilLog4From(x, c) == IF Pow(4, c) >= x THEN c ELSE CeilLog4From(x, c + 1)

CeilLog4(x) == CeilLog4From(x, 0)

\* The values of ceil(log4(2*N*F_j^2)), and whether 2*N*F_j^2 is a power of
\* 4, per (N, R) and stage.
NoiseTable ==
    [N \in 1..MaxCombStages,
     R \in 2..(IF MaxRatio > LifeMaxRatio THEN MaxRatio ELSE LifeMaxRatio) |->
        [p \in 0..(2 * N) |->
            LET x == 2 * N * F_j2(N, R, p)
                c == CeilLog4(x)
            IN  [c |-> c, exact |-> (Pow(4, c) = x)]]]

\* Stages whose raw B_j sits exactly on an integer before np.floor.
BoundaryStages(N, R) == {p \in 0..(2 * N) : NoiseTable[N, R][p].exact}

\* B_j before the patches: np.floor(-log2(F_j) + log2(truncation_noise_std)
\* + log2(6/N)/2).astype(int), with bits_truncated = bt; `below` is the set
\* of boundary stages where the floating-point sum fell under the integer.
raw_B_j(N, R, bt, below, p) ==
    bt - NoiseTable[N, R][p].c - (IF p \in below THEN 1 ELSE 0)

\* B_j with the clamp B_j[B_j < 0] = 0 left out.
B_j_unclamped(N, R, bt, below) ==
    LET raw == [p \in 0..(2 * N) |-> raw_B_j(N, R, bt, below, p)]
        patched_last == [raw EXCEPT ![2 * N] = bt]
    IN  [patched_last EXCEPT ![0] = 0]

\* B_j with the patch B_j[-1] = bits_truncated left out.
B_j_unpatched(N, R, bt, below) ==
    LET raw == [p \in 0..(2 * N) |-> raw_B_j(N, R, bt, below, p)]
        patched_first == [raw EXCEPT ![0] = 0]
    IN  [p \in 0..(2 * N) |->
            IF patched_first[p] < 0 THEN 0 ELSE patched_first[p]]

\* B_j after B_j[-1] = bits_truncated; B_j[0] = 0; B_j[B_j < 0] = 0.
B_j(N, R, bt, below) ==
    LET raw == [p \in 0..(2 * N) |-> raw_B_j(N, R, bt, below, p)]
        patched_last == [raw EXCEPT ![2 * N] = bt]
        patched_first == [patched_last EXCEPT ![0] = 0]
    IN  [p \in 0..(2 * N) |->
            IF patched_first[p] < 0 THEN 0 ELSE patched_first[p]]

\* calculate_trimmed_stages taking the noise budget from output_bits instead
\* of bits_truncated.
trimmed_from_output_bits(N, R, internal_bits, output_bits, below) ==
    LET B == B_j(N, R, output_bits, below)
    IN  [p \in 0..(2 * N) |-> internal_bits - B[p]]

\* Builder.calculate_trimmed_stages: stage_widths = internal_bits - B_j.
calculate_trimmed_stages(N, R, internal_bits, output_bits, below) ==
    LET B == B_j(N, R, internal_bits - output_bits, below)
    IN  [p \in 0..(2 * N) |-> internal_bits - B[p]]

\* calculate_untrimmed_stages without stage_widths[-1] = output_bits.
untrimmed_all_internal(N, internal_bits, output_bits) ==
    [p \in 0..(2 * N) |-> internal_bits]

\* Builder.calculate_untrimmed_stages.
calculate_untrimmed_stages(N, internal_bits, output_bits) ==
    [p \in 0..(2 * N) |-> IF p = 2 * N THEN output_bits ELSE internal_bits]

\* ---------------------------------------------------------- the object
Unset == <<>>

\* A Builder right after the dataclass-generated __init__: every field
\* assignment went through __setattr__, so _cooked is False and no derived
\* attribute exists yet.
NewBuilder(ratio, dtype, input_min, input_max, stages, output_width) ==
    [ratio |-> ratio, dtype |-> dtype, input_min |-> input_min,
     input_max |-> input_max, stages |-> stages,
     output_width |-> output_width, cooked |-> FALSE,
     input_bits |-> Unset, internal_bits |-> Unset, output_bits |-> Unset,
     stage_widths |-> Unset]

InternalBits(b) ==
    LET growth == Growth(b.ratio, b.stages)
    IN  bits(b.dtype, b.input_min * growth, b.input_max * growth)

\* output_width, or internal_bits when output_width is None.
OutputBits(b) ==
    IF b.output_width = Unset THEN InternalBits(b) ELSE b.output_width[1]

\* if output_width >= internal_bits: untrimmed, else trimmed.
Untrimmed(b) == OutputBits(b) >= InternalBits(b)

\* _cook reaches the table assignment with a table too short for it.
CookRaises(b) == ~b.cooked /\ ~Untrimmed(b) /\ TableExhausted(b.stages)

\* The boundary stages of the calculation _cook would run on b.
Boundaries(b) ==
    IF b.cooked \/ Untrimmed(b) \/ TableExhausted(b.stages) THEN {}
    ELSE BoundaryStages(b.stages, b.ratio)

\* _cook with self._cooked = True placed before the branch.
Cook_marks_early(b, below) ==
    IF b.cooked THEN b
    ELSE LET internal == InternalBits(b)
             output == OutputBits(b)
             b1 == [b EXCEPT !.input_bits = <<bits(b.dtype, b.input_min, b.input_max)>>,
                             !.internal_bits = <<internal>>,
                             !.output_bits = <<output>>,
                             !.cooked = TRUE]
         IN  IF output >= internal
             THEN [b1 EXCEPT !.stage_widths =
                                calculate_untrimmed_stages(b.stages, internal, output)]
             ELSE IF TableExhausted(b.stages) THEN b1
             ELSE [b1 EXCEPT !.stage_widths =
                                calculate_trimmed_stages(b.stages, b.ratio,
                                                         internal, output, below)]

\* Builder._cook.  On ValueError the attributes assigned before the branch
\* stay assigned, stage_widths keeps its old value and _cooked stays False.
Cook(b, below) ==
    IF b.cooked THEN b
    ELSE LET internal == InternalBits(b)
             output == OutputBits(b)
             b1 == [b EXCEPT !.input_bits = <<bits(b.dtype, b.input_min, b.input_max)>>,
                             !.internal_bits = <<internal>>,
                             !.output_bits = <<output>>]
         IN  IF output >= internal
             THEN [b1 EXCEPT !.stage_widths =
                                calculate_untrimmed_stages(b.stages, internal, output),
                             !.cooked = TRUE]
             ELSE IF TableExhausted(b.stages) THEN b1
             ELSE [b1 EXCEPT !.stage_widths =
                                calculate_trimmed_stages(b.stages, b.ratio,
                                                         internal, output, below),
                             !.cooked = TRUE]

\* __setattr__ that stores the value and leaves _cooked as it is.
setattr_keeps_cooked(b, attr, value) ==
    IF attr \in DOMAIN b THEN [b EXCEPT ![attr] = value] ELSE b

\* Builder.__setattr__: any attribute but _cooked clears _cooked.  The
\* attributes that do not feed the calculation (async_reset, osvvm, work,
\* name, program) are not stored in the model's record.
setattr(b, attr, value) ==
    IF attr \in DOMAIN b
    THEN [b EXCEPT ![attr] = value, !.cooked = FALSE]
    ELSE [b EXCEPT !.cooked = FALSE]

\* The Builder that Builder.copy returns after self._cook():
\* self.__class__(**d) with d = dataclasses.asdict(self) updated by kwargs.
\* asdict holds the dataclass fields only, so the copy starts uncooked.
CopyOf(b, kwargs) ==
    LET d == [a \in {"ratio", "dtype", "input_min", "input_max", "stages",
                     "output_width"} |->
                 IF a \in DOMAIN kwargs THEN kwargs[a] ELSE b[a]]
    IN  NewBuilder(d["ratio"], d["dtype"], d["input_min"], d["input_max"],
                   d["stages"], d["output_width"])

\* parse_arguments: the namespace's input range, or the way it ends.
\* args.input_bits and args.input_range are <<>> when the option is absent;
\* input_range holds the two integers the regular expression captured.
parse_arguments(args) ==
    LET use_bits == args.input_bits # Unset /\ args.input_bits[1] # 0
        n == args.input_bits[1]
        lo == IF use_bits
              THEN (IF args.dtype = "unsigned" THEN 0 ELSE -Pow(2, n - 1))
              ELSE (IF args.input_range[1] > args.input_range[2]
                    THEN args.input_range[2] ELSE args.input_range[1])
        hi == IF use_bits
              THEN (IF args.dtype = "unsigned" THEN Pow(2, n) - 1
                    ELSE Pow(2, n - 1) - 1)
              ELSE (IF args.input_range[1] > args.input_range[2]
                    THEN args.input_range[1] ELSE args.input_range[2])
    IN  IF ~use_bits /\ args.input_range = Unset
        THEN [raised |-> "TypeError", input_min |-> 0, input_max |-> 0]
        ELSE IF args.dtype = "unsigned" /\ (lo < 0 \/ hi < 0)
        THEN [raised |-> "SystemExit", input_min |-> lo, input_max |-> hi]
        ELSE [raised |-> "none", input_min |-> lo, input_max |-> hi]

\* --------------------------------------------------------------- state
\* builders: the Builder objects alive, in order of creation.
\* outcome: the last call made, the object it was made on and the exception
\*          it ended with ("none" when it returned).
VARIABLES builders, outcome

vars == <<builders, outcome>>

Ids == {1, 2}

Dtypes == {"unsigned", "signed"}

Ratios == 2..MaxRatio

Stages == 1..(MaxCombStages + 1)

InValues == (-MaxIn)..MaxIn

Widths == {Unset} \cup {<<w>> : w \in 0..MaxOW}

KwArgs == {<<>>} \cup {[output_width |-> w] : w \in Widths}

Args ==
    [input_bits : {<<n>> : n \in 0..MaxInBits}, input_range : {Unset},
     dtype : Dtypes, ratio : Ratios, stages : Stages]
    \cup
    [input_bits : {Unset}, input_range : InValues \X InValues,
     dtype : Dtypes, ratio : Ratios, stages : Stages]

NoCall == [op |-> "none", self |-> 0, raised |-> "none"]

Init ==
    /\ builders = <<>>
    /\ outcome = NoCall

\* Builder(ratio=..., dtype=..., ...) called directly by a client.
Construct(ratio, dtype, input_min, input_max, stages, output_width) ==
    /\ builders = <<>>
    /\ outcome = NoCall
    /\ input_min <= input_max
    /\ builders' = <<NewBuilder(ratio, dtype, input_min, input_max,
                                stages, output_width)>>
    /\ outcome' = [op |-> "Builder", self |-> 1, raised |-> "none"]

\* A client builds its Builder from any configuration of the bounded domain.
ClientConstructs ==
    /\ builders = <<>>
    /\ \E r \in Ratios, d \in Dtypes, lo \in InValues, hi \in InValues,
          n \in Stages, w \in Widths : Construct(r, d, lo, hi, n, w)

\* A method that is self._cook() followed by rendering (no state change).
CookCall(op, i, below) ==
    /\ builders' = [builders EXCEPT ![i] = Cook(builders[i], below)]
    /\ outcome' = [op |-> op, self |-> i,
                   raised |-> IF CookRaises(builders[i])
                              THEN "ValueError" ELSE "none"]

generate_filter(i) ==
    /\ i \in DOMAIN builders
    /\ \E below \in SUBSET Boundaries(builders[i]) :
          CookCall("generate_filter", i, below)

generate_testbench(i) ==
    /\ i \in DOMAIN builders
    /\ \E below \in SUBSET Boundaries(builders[i]) :
          CookCall("generate_testbench", i, below)

\* Builder.copy(**kwargs), the caller keeping both objects.
copy(i, kwargs) ==
    /\ i \in DOMAIN builders
    /\ Len(builders) < Cardinality(Ids)
    /\ \E below \in SUBSET Boundaries(builders[i]) :
          LET cooked == Cook(builders[i], below)
          IN  IF CookRaises(builders[i])
              THEN /\ builders' = [builders EXCEPT ![i] = cooked]
                   /\ outcome' = [op |-> "copy", self |-> i,
                                  raised |-> "ValueError"]
              ELSE /\ builders' = Append([builders EXCEPT ![i] = cooked],
                                         CopyOf(cooked, kwargs))
                   /\ outcome' = [op |-> "copy", self |-> i, raised |-> "none"]

\* cmdline.main: parse_arguments, Builder(...) without output_width, then
\* generate_filter and generate_testbench on it.
main(args) ==
    /\ builders = <<>>
    /\ outcome = NoCall
    /\ LET ns == parse_arguments(args)
           builder == NewBuilder(args.ratio, args.dtype, ns.input_min,
                                 ns.input_max, args.stages, Unset)
       IN  IF ns.raised # "none"
           THEN /\ builders' = builders
                /\ outcome' = [op |-> "main", self |-> 0, raised |-> ns.raised]
           ELSE \E below \in SUBSET Boundaries(builder) :
                  /\ builders' = <<Cook(Cook(builder, below), below)>>
                  /\ outcome' = [op |-> "main", self |-> 1,
                                 raised |-> IF CookRaises(builder)
                                            THEN "ValueError" ELSE "none"]

CommandLine ==
    /\ builders = <<>>
    /\ \E args \in Args : main(args)

Next ==
    \/ ClientConstructs
    \/ CommandLine
    \/ \E i \in Ids : generate_filter(i)
    \/ \E i \in Ids : generate_testbench(i)
    \/ \E i \in Ids, kwargs \in KwArgs : copy(i, kwargs)

Spec == Init /\ [][Next]_vars

\* ------------------------------------------- one object, reassigned
\* A client that keeps one Builder, assigns its attributes and calls the
\* cooking methods in any order.
LifeRatios == 2..LifeMaxRatio

LifeStages == 1..LifeMaxStages

LifeInValues == (-LifeMaxIn)..LifeMaxIn

LifeWidths == {Unset} \cup {<<w>> : w \in 0..LifeMaxOW}

LifeValues(attr) ==
    CASE attr = "ratio" -> LifeRatios
      [] attr = "dtype" -> Dtypes
      [] attr = "input_min" -> LifeInValues
      [] attr = "input_max" -> LifeInValues
      [] attr = "stages" -> LifeStages
      [] attr = "output_width" -> LifeWidths
      [] attr = "name" -> {"cic_decimator"}

LifeAttrs ==
    {"ratio", "dtype", "input_min", "input_max", "stages", "output_width",
     "name"}

LifeKwArgs ==
    {<<>>} \cup {[output_width |-> w] : w \in LifeWidths}
           \cup {[stages |-> n] : n \in LifeStages}

LifeInit ==
    /\ \E r \in LifeRatios, d \in Dtypes, lo \in LifeInValues,
          hi \in LifeInValues, n \in LifeStages, w \in LifeWidths :
          /\ lo <= hi
          /\ builders = <<NewBuilder(r, d, lo, hi, n, w)>>
    /\ outcome = [op |-> "Builder", self |-> 1, raised |-> "none"]

\* builder.attr = value, the range staying a range.
assign(i, attr, value) ==
    /\ i \in DOMAIN builders
    /\ LET b == setattr(builders[i], attr, value)
       IN  /\ b.input_min <= b.input_max
           /\ builders' = [builders EXCEPT ![i] = b]
    /\ outcome' = [op |-> "setattr", self |-> i, raised |-> "none"]

\* builder = builder.copy(**kwargs): the caller keeps the copy only.
rebind_copy(i, kwargs) ==
    /\ i \in DOMAIN builders
    /\ \E below \in SUBSET Boundaries(builders[i]) :
          LET cooked == Cook(builders[i], below)
          IN  IF CookRaises(builders[i])
              THEN /\ builders' = [builders EXCEPT ![i] = cooked]
                   /\ outcome' = [op |-> "copy", self |-> i,
                                  raised |-> "ValueError"]
              ELSE /\ builders' = [builders EXCEPT ![i] = CopyOf(cooked, kwargs)]
                   /\ outcome' = [op |-> "copy", self |-> i, raised |-> "none"]

LifeNext ==
    \/ \E i \in Ids, attr \in LifeAttrs :
          \E value \in LifeValues(attr) : assign(i, attr, value)
    \/ \E i \in Ids : generate_filter(i)
    \/ \E i \in Ids : generate_testbench(i)
    \/ \E i \in Ids, kwargs \in LifeKwArgs : rebind_copy(i, kwargs)

LifeSpec == LifeInit /\ [][LifeNext]_vars

\* ============================================================== claims
\* What the claims read off a Builder object.
Objects == {builders[i] : i \in DOMAIN builders}

LastStage(b) == 2 * b.stages

\* The pruned-bit count of stage p: internal_bits - stage_widths[p].
Pruned(b, p) == b.internal_bits[1] - b.stage_widths[p]

TookTrimmed(b) == b.cooked /\ b.output_bits[1] < b.internal_bits[1]

TookUntrimmed(b) == b.cooked /\ b.output_bits[1] >= b.internal_bits[1]

\* The configurations the spec calls valid: stages within the table and a
\* range that fits the signedness (ratio >= 2 and min <= max hold throughout).
ValidConfig(b) ==
    /\ b.stages \in 1..MaxCombStages
    /\ b.input_min <= b.input_max
    /\ (b.dtype = "unsigned" => b.input_min >= 0)

\* C1 (as claimed): after _cook, for any output width, B_0 = 0 and B_j >= 0
\* at every stage j in 0..2N, in the trimmed and in the untrimmed branch.
C1_AllStagesNonNegative ==
    \A b \in Objects :
        b.cooked /\ ValidConfig(b) =>
            /\ Pruned(b, 0) = 0
            /\ \A p \in 0..LastStage(b) : Pruned(b, p) >= 0

\* C1 (amended): after _cook, B_0 = 0 and B_j >= 0 at every stage before the
\* last; the last stage's count is internal_bits - output_bits, which is
\* negative exactly when the requested output width exceeds internal_bits
\* (the untrimmed branch widens the last stage).
C1_NonFinalStagesNonNegative ==
    \A b \in Objects :
        b.cooked =>
            /\ Pruned(b, 0) = 0
            /\ \A p \in 0..(LastStage(b) - 1) : Pruned(b, p) >= 0
            /\ Pruned(b, LastStage(b)) = b.internal_bits[1] - b.output_bits[1]
            /\ (Pruned(b, LastStage(b)) < 0
                  <=> (b.output_width # Unset
                       /\ b.output_width[1] > b.internal_bits[1]))

\* A trimmed calculation in which one inner stage is pruned and another had
\* its negative count clamped to 0.
C1_Witness ==
    \E b \in Objects :
        /\ TookTrimmed(b)
        /\ \E p, q \in 1..(LastStage(b) - 1) :
              /\ Pruned(b, p) > 0
              /\ Pruned(b, q) = 0
              /\ raw_B_j(b.stages, b.ratio,
                         b.internal_bits[1] - b.output_bits[1], {}, q) < 0

\* C2: whenever an output width is given, the last entry of stage_widths
\* after _cook is that width; the B_0 := 0 patch and the clamp leave it alone.
C2_LastStageIsOutputWidth ==
    \A b \in Objects :
        b.cooked /\ b.output_width # Unset =>
            /\ b.stage_widths[LastStage(b)] = b.output_width[1]
            /\ Pruned(b, LastStage(b)) = b.internal_bits[1] - b.output_width[1]

\* A trimmed calculation with a given width where the formula's own value
\* for the last stage differs from the patched one.
C2_Witness ==
    \E b \in Objects :
        /\ TookTrimmed(b)
        /\ b.output_width # Unset
        /\ raw_B_j(b.stages, b.ratio, b.internal_bits[1] - b.output_bits[1],
                   {}, LastStage(b)) # Pruned(b, LastStage(b))

\* C3: with output_width absent or >= internal_bits, _cook takes the
\* untrimmed branch: every stage before the last is internal_bits wide and
\* the last is output_bits wide (internal_bits when output_width is absent);
\* no gain norm enters, so this holds for any stage count, the ones beyond
\* the comb-norm table included, and a generate call on such an object
\* returns without an exception and leaves it cooked.
C3_UntrimmedWidths ==
    /\ outcome.op \in {"generate_filter", "generate_testbench"}
          /\ Untrimmed(builders[outcome.self]) =>
            outcome.raised = "none" /\ builders[outcome.self].cooked
    /\ \A b \in Objects :
        b.cooked /\ b.internal_bits # Unset
          /\ (b.output_width = Unset \/ b.output_width[1] >= b.internal_bits[1]) =>
            /\ b.output_bits[1] = (IF b.output_width = Unset
                                   THEN b.internal_bits[1]
                                   ELSE b.output_width[1])
            /\ DOMAIN b.stage_widths = 0..LastStage(b)
            /\ \A p \in 0..(LastStage(b) - 1) :
                  b.stage_widths[p] = b.internal_bits[1]
            /\ b.stage_widths[LastStage(b)] = b.output_bits[1]

\* An untrimmed calculation with more stages than the table supports and a
\* requested width above internal_bits.
C3_Witness ==
    \E b \in Objects :
        /\ TookUntrimmed(b)
        /\ b.stages > MaxCombStages
        /\ b.output_width # Unset
        /\ b.output_width[1] > b.internal_bits[1]

SameButWidth(a, b) ==
    /\ a.ratio = b.ratio
    /\ a.stages = b.stages
    /\ a.dtype = b.dtype
    /\ a.input_min = b.input_min
    /\ a.input_max = b.input_max

\* C4: with ratio, stages, dtype and input range fixed, a larger output
\* width never gives a larger pruned-bit count at any stage, also across
\* the trimmed and the untrimmed branch.
C4_WiderOutputPrunesNoMore ==
    \A a \in Objects, b \in Objects :
        /\ a.cooked /\ b.cooked /\ SameButWidth(a, b)
        /\ a.output_width # Unset /\ b.output_width # Unset
        /\ a.output_width[1] < b.output_width[1]
        => \A p \in 0..LastStage(a) : Pruned(b, p) <= Pruned(a, p)

\* A Builder and its copy with a larger width, the first trimmed with an
\* inner stage pruned, the copy untrimmed.
C4_Witness ==
    \E a \in Objects, b \in Objects :
        /\ SameButWidth(a, b)
        /\ a.output_width # Unset /\ b.output_width # Unset
        /\ a.output_width[1] < b.output_width[1]
        /\ TookTrimmed(a) /\ TookUntrimmed(b)
        /\ \E p \in 1..(LastStage(a) - 1) : Pruned(b, p) < Pruned(a, p)

\* The least w in 0..top that fits, for a range that fits in top bits.
FitsSigned(w, lo, hi) ==
    w >= 1 /\ -Pow(2, w - 1) <= lo /\ hi <= Pow(2, w - 1) - 1

FitsUnsigned(w, hi) == hi <= Pow(2, w) - 1

Fits(dtype, w, lo, hi) ==
    IF dtype = "unsigned" THEN FitsUnsigned(w, hi) ELSE FitsSigned(w, lo, hi)

MinimalWidth(dtype, lo, hi) ==
    LET top == bit_length(lo) + bit_length(hi) + 2
    IN  CHOOSE w \in 0..top :
            /\ Fits(dtype, w, lo, hi)
            /\ \A v \in 0..(w - 1) : ~Fits(dtype, v, lo, hi)

\* C5: bits(min, max) is the minimal two's-complement width holding the
\* whole range: signed, the least w with -2^(w-1) <= min and
\* max <= 2^(w-1) - 1; unsigned with 0 <= min <= max, the least w with
\* max <= 2^w - 1.  Read off input_bits = bits(input_min, input_max).
C5_BitsIsMinimalWidth ==
    \A b \in Objects :
        b.input_bits # Unset /\ b.cooked
          /\ (b.dtype = "signed" \/ b.input_min >= 0) =>
            b.input_bits[1] = MinimalWidth(b.dtype, b.input_min, b.input_max)

\* ceil(log2(x)) and floor(log2(x)) for x >= 1.
RECURSIVE CeilLog2From(_, _)
CeilLog2From(x, c) == IF Pow(2, c) >= x THEN c ELSE CeilLog2From(x, c + 1)

CeilLog2(x) == CeilLog2From(x, 0)

RECURSIVE FloorLog2(_)
FloorLog2(x) == IF x <= 1 THEN 0 ELSE 1 + FloorLog2(x \div 2)

\* C6 (as claimed): internal_bits = input width + ceil(log2(R^N)) + 1.
C6_InputPlusGrowthPlusGuard ==
    \A b \in Objects :
        b.cooked /\ ValidConfig(b) =>
            b.internal_bits[1] =
                b.input_bits[1] + CeilLog2(Pow(b.ratio, b.stages)) + 1

\* The width is decided by a bound that is not 0.
DecidingBoundNonZero(b) ==
    b.input_max # 0 \/ (b.dtype = "signed" /\ b.input_min # 0)

\* C6 (amended): internal_bits is the width of the range scaled by R^N, with
\* no guard bit: it is at most input width + ceil(log2(R^N)), never below
\* the input width, and at least input width + floor(log2(R^N)) unless the
\* bound that decides the width is 0.
C6_InternalWithinGrowth ==
    \A b \in Objects :
        b.cooked =>
            LET g == Pow(b.ratio, b.stages)
            IN  /\ b.internal_bits[1] <= b.input_bits[1] + CeilLog2(g)
                /\ b.internal_bits[1] >= b.input_bits[1]
                /\ (DecidingBoundNonZero(b) =>
                      b.internal_bits[1] >= b.input_bits[1] + FloorLog2(g))

\* A cooked Builder whose ratio is no power of two and whose internal width
\* stays strictly under input width + ceil(log2(R^N)).
C6_Witness ==
    \E b \in Objects :
        /\ b.cooked
        /\ DecidingBoundNonZero(b)
        /\ b.internal_bits[1] <
              b.input_bits[1] + CeilLog2(Pow(b.ratio, b.stages))

\* C7: an unsigned configuration whose range has a negative bound is
\* rejected and never yields stage widths, through the command line and
\* through a Builder constructed directly and cooked.
C7_UnsignedNegativeRejected ==
    \A b \in Objects :
        b.dtype = "unsigned" /\ (b.input_min < 0 \/ b.input_max < 0) =>
            ~b.cooked /\ b.stage_widths = Unset

CookingOps == {"generate_filter", "generate_testbench", "copy", "main"}

\* The last call cooked an object whose stage count exceeds the table.
CookedBeyondTable ==
    /\ outcome.op \in CookingOps
    /\ outcome.self \in DOMAIN builders
    /\ builders[outcome.self].stages > MaxCombStages

\* C8 (as claimed): a calculation with stages > 7 ends in an error raised
\* inside _cook, whatever the output width, and _cooked stays false.
C8_BeyondTableAlwaysRaises ==
    CookedBeyondTable =>
        /\ outcome.raised = "ValueError"
        /\ ~builders[outcome.self].cooked

\* C8 (amended): a calculation with stages > 7 ends in an error raised
\* inside _cook exactly when an output width below internal_bits is given
\* (the trimmed branch), and then _cooked stays false; with the width absent
\* or >= internal_bits it returns a stage-width sequence.
C8_BeyondTableRaisesWhenTrimmed ==
    CookedBeyondTable =>
        LET b == builders[outcome.self]
        IN  /\ outcome.raised = "ValueError"
                 <=> (b.output_width # Unset
                      /\ b.output_width[1] < b.internal_bits[1])
            /\ outcome.raised = "ValueError" => ~b.cooked
            /\ outcome.raised = "none" =>
                  b.cooked /\ DOMAIN b.stage_widths = 0..LastStage(b)

C8_Witness ==
    /\ CookedBeyondTable
    /\ outcome.raised = "ValueError"
    /\ builders[outcome.self].internal_bits # Unset

\* What a freshly constructed Builder with b's field values can compute.
FreshResults(b) ==
    LET fresh == CopyOf(b, <<>>)
    IN  {Cook(fresh, below) : below \in SUBSET Boundaries(fresh)}

Derived(b) ==
    <<b.input_bits, b.internal_bits, b.output_bits, b.stage_widths>>

UpToDate(b) == \E f \in FreshResults(b) : f.cooked /\ Derived(b) = Derived(f)

\* C9: across any sequence of attribute assignments and cooking calls, the
\* derived values a cooking call leaves are those a fresh Builder with the
\* same fields computes: a cooked object is up to date, a cooking call that
\* returns leaves the object cooked, an assignment clears _cooked, and a
\* cooking call on a cooked object changes nothing.
C9_CookedMeansUpToDate ==
    /\ [](\A b \in Objects : b.cooked => UpToDate(b))
    /\ [](outcome.op \in {"generate_filter", "generate_testbench"}
            /\ outcome.raised = "none" => builders[outcome.self].cooked)
    /\ [][outcome'.op = "setattr"
            => ~builders'[outcome'.self].cooked]_vars
    /\ [][\A i \in DOMAIN builders :
            builders[i].cooked
              /\ outcome'.op \in {"generate_filter", "generate_testbench"}
              /\ outcome'.self = i
            => builders'[i] = builders[i]]_vars

\* An assignment after a cook left derived values that a fresh calculation
\* would not produce, with _cooked cleared.
C9_Witness ==
    \E b \in Objects :
        /\ ~b.cooked
        /\ b.stage_widths # Unset
        /\ outcome.op = "setattr"
        /\ \A f \in FreshResults(b) : Derived(f) # Derived(b)

\* No inner stage's count sits on a rounding boundary of np.floor, so the
\* floating-point result is the exact one.
RoundingFree(b) ==
    BoundaryStages(b.stages, b.ratio) \subseteq {0, LastStage(b)}

\* C10 (as claimed): in the trimmed branch the pruned-bit counts never
\* decrease along the pipeline: B_j <= B_{j+1} for every j in 0..2N-1.
\* Stated on the valid configurations whose result does not hang on
\* floating-point rounding, where the claim's exact B_j is the code's.
C10_CumulativeAlongPipeline ==
    \A b \in Objects :
        TookTrimmed(b) /\ ValidConfig(b) /\ RoundingFree(b) =>
            \A p \in 0..(LastStage(b) - 1) : Pruned(b, p) <= Pruned(b, p + 1)

\* C10 (amended): in the trimmed branch B_j <= B_{j+1} holds for every j in
\* 0..2N-1 when the ratio is at least 3; for ratio 2 it holds from the first
\* comb stage on (j in N..2N-1) and between stages 0 and 1.
C10_CumulativeFromRatio3 ==
    \A b \in Objects :
        TookTrimmed(b) =>
            /\ b.ratio >= 3 =>
                  \A p \in 0..(LastStage(b) - 1) :
                      Pruned(b, p) <= Pruned(b, p + 1)
            /\ \A p \in {0} \cup (b.stages)..(LastStage(b) - 1) :
                  Pruned(b, p) <= Pruned(b, p + 1)

\* A trimmed calculation at ratio >= 3 whose integrator stages are pruned by
\* growing amounts.
C10_Witness ==
    \E b \in Objects :
        /\ TookTrimmed(b)
        /\ b.ratio >= 3
        /\ b.stages >= 3
        /\ 0 < Pruned(b, 1)
        /\ Pruned(b, 1) < Pruned(b, 2)

====
